---- MODULE Spec2Model ----
(***************************************************************************)
(* State-machine model of aiohttp_json_rpc.auth.django.DjangoAuthBackend:  *)
(* session-cookie identity lookup (get_user), the authorization predicate  *)
(* (_is_authorized), the per-connection rebuild (prepare_request) and the  *)
(* built-in login method.                                                  *)
(***************************************************************************)
EXTENDS Integers, FiniteSets, Sequences, TLC

VARIABLES
    rpc_methods,          \* request.rpc.methods: name -> metadata of the registered function
    generic_orm_methods,  \* DjangoAuthBackend.generic_orm_methods
    SESSION_COOKIE_NAME,  \* settings.SESSION_COOKIE_NAME
    users,                \* django User table: pk -> row
    sessions,             \* django Session table: session_key -> row
    cookies,              \* request.cookies of each connection (handshake cookies)
    user,                 \* request.user
    methods,              \* request.methods
    topics,               \* request.topics
    subscriptions,        \* request.subscriptions
    prepared,             \* request has the attributes prepare_request sets
    pending,              \* prepare_request tasks suspended at run_in_executor
    tickets,              \* number of rebuilds triggered so far, per connection
    writer,               \* ticket of the rebuild that wrote the connection state last
    dropped,              \* topics the rebuilds took from the subscriptions
    ws_cookies,           \* cookies set on the websocket response
    reply,                \* outcome of the last login call of the connection
    authUser,             \* input of the authorization check: request.user
    authMeta,             \* input of the authorization check: attributes of the method
    authResult,           \* output of the authorization check
    objects,              \* model.objects of every installed model: pk -> row
    orm_reply             \* the last db__ call and its outcome

cfgVars == <<rpc_methods, generic_orm_methods, SESSION_COOKIE_NAME>>
dbVars == <<users, sessions>>
connVars == <<cookies, user, methods, topics, subscriptions, prepared, pending,
              tickets, writer, dropped, ws_cookies, reply>>
authVars == <<authUser, authMeta, authResult>>
ormVars == <<objects, orm_reply>>
vars == <<cfgVars, dbVars, connVars, authVars, ormVars>>

-----------------------------------------------------------------------------
(* Bounds of the model *)

MaxRebuilds == 3
MaxSessions == 1
MaxTests == 2
MaxItems == 1

\* the connections (requests) of the model
Conns == {"a", "b"}

-----------------------------------------------------------------------------
(* Permission names "<app>.<action>_<model>", kept as their three segments *)

PermView == <<"shop", "view", "item">>
PermChange == <<"shop", "change", "item">>
PermPublish == <<"shop", "publish", "item">>
PermAdd == <<"shop", "add", "item">>
PermDelete == <<"shop", "delete", "item">>
\* "shop.view_item_log", the view permission of the model class Item_Log
PermViewLog == <<"shop", "view", "item", "log">>

\* Permission.objects.all()
AllPermissions == {PermView, PermAdd, PermChange, PermDelete, PermPublish, PermViewLog}

-----------------------------------------------------------------------------
(* Users as the backend sees them *)

NoUid == "None"

\* django.contrib.auth.models.AnonymousUser()
AnonymousUser ==
    [kind |-> "AnonymousUser", uid |-> NoUid, is_active |-> FALSE,
     is_superuser |-> FALSE, perms |-> {}]

\* user tests attached with user_passes_test: predicates over request.user
TestIds == {"t_anonymous", "t_active", "t_view"}

RunTest(t, u) ==
    CASE t = "t_anonymous" -> u.kind = "AnonymousUser"
      [] t = "t_active" -> u.is_active
      [] t = "t_view" -> PermView \in u.perms

\* User.has_perm: active superusers have every permission
has_perm(u, p) == (u.is_active /\ u.is_superuser) \/ p \in u.perms

\* faulty variant: one of the permissions is enough
HasPermsAnyOf(u, perm_list) == perm_list = {} \/ \E p \in perm_list : has_perm(u, p)

\* User.has_perms(perm_list)
has_perms(u, perm_list) == \A p \in perm_list : has_perm(u, p)

\* _user_is_authenticated (lines 40-48)
user_is_authenticated(u) == u.kind = "User"

AllTestsPass(u, tests) == \A i \in 1..Len(tests) : RunTest(tests[i], u)

\* faulty variant: superusers are checked like everyone else
IsAuthorizedNoSuperuserBypass(u, m) ==
    IF m.login_required /\ (~u.is_active \/ ~user_is_authenticated(u)) THEN FALSE
    ELSE IF ~has_perms(u, m.permissions_required) THEN FALSE
    ELSE IF ~AllTestsPass(u, m.tests) THEN FALSE
    ELSE TRUE

\* DjangoAuthBackend._is_authorized(request, method), request.user = u.
\* A missing login_required attribute is login_required = FALSE, a missing
\* permissions_required the empty set, missing tests the empty sequence.
IsAuthorized(u, m) ==
    IF m.login_required /\ (~u.is_active \/ ~user_is_authenticated(u)) THEN FALSE
    ELSE IF ~u.is_superuser /\ ~has_perms(u, m.permissions_required) THEN FALSE
    ELSE IF ~u.is_superuser /\ ~AllTestsPass(u, m.tests) THEN FALSE
    ELSE TRUE

Meta(lr, perms, tests) ==
    [login_required |-> lr, permissions_required |-> perms, tests |-> tests]

-----------------------------------------------------------------------------
(* The database: django's User and Session tables *)

Alice == "1"
Root == "2"
Carol == "3"

UserRow(name, pw, active, super, perms) ==
    [username |-> name, password |-> pw, is_active |-> active,
     is_superuser |-> super, user_permissions |-> perms]

InitUsers ==
    (Alice :> UserRow("alice", "secret", TRUE, FALSE, {PermView, PermPublish}))
    @@ (Root :> UserRow("root", "1234", TRUE, TRUE, {}))
    @@ (Carol :> UserRow("carol", "pw", FALSE, FALSE, {PermView}))

\* a Session row: the decoded '_auth_user_id' (NoUid when the session data
\* holds none) and whether expire_date has passed
SessionRow(uid, expired) == [uid |-> uid, expired |-> expired]

InitSessions == "s0" :> SessionRow(Alice, FALSE)

\* keys SessionStore() can generate for new sessions
SessionPool == <<"s1", "s2", "s3", "s4">>
NewSessionKeys == {SessionPool[i] : i \in 1..MaxSessions}

\* User.objects.get(pk=uid): the model instance, its permission cache not yet filled
UserObject(uid) ==
    [kind |-> "User", uid |-> uid, is_active |-> users[uid].is_active,
     is_superuser |-> users[uid].is_superuser, perms |-> {}]

\* User.get_all_permissions() (ModelBackend): nothing for inactive or anonymous
\* users, every permission for a superuser, else the user's own permissions
get_all_permissions(u) ==
    IF u.kind = "AnonymousUser" \/ ~u.is_active THEN {}
    ELSE IF u.is_superuser THEN AllPermissions
    ELSE IF u.uid \in DOMAIN users THEN users[u.uid].user_permissions
    ELSE {}

\* the user object once its permission cache is filled (first permission query)
WithPermissions(u) == [u EXCEPT !.perms = get_all_permissions(u)]

-----------------------------------------------------------------------------
(* Cookies: a dict name -> value *)

CookieNames == {"sessionid", "sid"}
NoCookies == [n \in {} |-> ""]
OneCookie(name, value) == [n \in {name} |-> value]

\* dict.get(name, default)
CookieGet(ck, name, default) == IF name \in DOMAIN ck THEN ck[name] ELSE default

-----------------------------------------------------------------------------
(* get_user (lines 22-37) *)

Return(u) == [raised |-> "none", value |-> u]
Raise(exc) == [raised |-> exc, value |-> AnonymousUser]

\* faulty variant: User.DoesNotExist is not caught
GetUserUncaughtUser(ck) ==
    LET session_key == CookieGet(ck, "sessionid", "")
    IN  IF session_key = "" THEN Return(AnonymousUser)
        ELSE IF session_key \notin DOMAIN sessions THEN Return(AnonymousUser)
        ELSE LET uid == sessions[session_key].uid
             IN  IF uid \in DOMAIN users THEN Return(UserObject(uid))
                 ELSE Raise("User.DoesNotExist")

\* Session.objects.get raises Session.DoesNotExist when no row has the key (it
\* does not look at expire_date); User.objects.get raises User.DoesNotExist
\* when no user has the pk (also for pk=None); both are caught and passed.
get_user(ck) ==
    LET session_key == CookieGet(ck, "sessionid", "")
    IN  IF session_key = "" THEN Return(AnonymousUser)
        ELSE IF session_key \notin DOMAIN sessions THEN Return(AnonymousUser)
        ELSE LET uid == sessions[session_key].uid
             IN  IF uid \in DOMAIN users THEN Return(UserObject(uid))
                 ELSE Return(AnonymousUser)

-----------------------------------------------------------------------------
(* The registries: request.rpc.methods and request.rpc.topics *)

LoginName == <<"login">>

BaseMethods ==
    (<<"ping">> :> Meta(FALSE, {}, <<>>))
    @@ (<<"whoami">> :> Meta(TRUE, {}, <<>>))
    @@ (<<"list">> :> Meta(FALSE, {PermView}, <<>>))
    @@ (<<"edit">> :> Meta(TRUE, {PermChange}, <<>>))
    @@ (<<"guest">> :> Meta(FALSE, {}, <<"t_anonymous">>))
    @@ (<<"active">> :> Meta(FALSE, {}, <<"t_active", "t_view">>))

\* registries an application can build with add_methods: BaseMethods, without a
\* method named "login", and with a public one or one for logged-in users added
PublicLogin == BaseMethods @@ (LoginName :> Meta(FALSE, {}, <<>>))
MembersLogin == BaseMethods @@ (LoginName :> Meta(TRUE, {}, <<>>))

\* deployments: the registry, generic_orm_methods, settings.SESSION_COOKIE_NAME
Configuration(m, orm, cookie) == [methods |-> m, orm |-> orm, cookie |-> cookie]

Configurations ==
    { Configuration(BaseMethods, TRUE, "sessionid"),
      Configuration(PublicLogin, FALSE, "sessionid"),
      Configuration(MembersLogin, FALSE, "sid") }

rpc_topics ==
    ("news" :> Meta(FALSE, {}, <<>>))
    @@ ("orders" :> Meta(TRUE, {PermView}, <<>>))

-----------------------------------------------------------------------------
(* prepare_request: the tables it builds (lines 199-231) *)

\* JsonRpcMethod(self.login), JsonRpcMethod(self.handle_orm_call) and the
\* JsonRpcMethod registered under a name
BuiltinLogin == [kind |-> "login", name |-> LoginName]
OrmCall == [kind |-> "orm", name |-> <<"handle_orm_call">>]
Registered(n) == [kind |-> "rpc", name |-> n]

EmptyTable == [n \in {} |-> BuiltinLogin]

\* permission_name.split('.')[1].split('_')[0]
PermissionAction(p) == p[2]

OrmActions == {"view", "add", "change", "delete"}

\* f'db__{permission_name}'
DbMethodName(p) == <<"db">> \o p

\* faulty variant: login is offered to logged-in users too
LoginMethodsForEveryone(u) == LoginName :> BuiltinLogin

\* lines 203-204
LoginMethods(u) ==
    IF u.kind = "AnonymousUser" THEN (LoginName :> BuiltinLogin) ELSE EmptyTable

\* lines 207-214
OrmMethods(t, u) ==
    IF generic_orm_methods
    THEN LET names == {DbMethodName(p) :
                          p \in {q \in u.perms : PermissionAction(q) \in OrmActions}}
         IN  [n \in DOMAIN t \cup names |-> IF n \in names THEN OrmCall ELSE t[n]]
    ELSE t

\* faulty variant: only login_required is checked
RpcMethodsLoginRequiredOnly(t, u) ==
    LET names == {n \in DOMAIN rpc_methods :
                     ~rpc_methods[n].login_required \/ (u.kind = "User" /\ u.is_active)}
    IN  [n \in DOMAIN t \cup names |-> IF n \in names THEN Registered(n) ELSE t[n]]

\* lines 217-219
RpcMethods(t, u) ==
    LET names == {n \in DOMAIN rpc_methods : IsAuthorized(u, rpc_methods[n])}
    IN  [n \in DOMAIN t \cup names |-> IF n \in names THEN Registered(n) ELSE t[n]]

\* faulty variant: the built-in login is never offered
AllowedMethodsWithoutLogin(u) == RpcMethods(OrmMethods(EmptyTable, u), u)

\* request.methods after lines 200-219, for request.user = u
AllowedMethods(u) == RpcMethods(OrmMethods(LoginMethods(u), u), u)

\* request.topics after lines 222-226
AllowedTopics(u) == {t \in DOMAIN rpc_topics : IsAuthorized(u, rpc_topics[t])}

\* request.subscriptions as prepare_request finds it (lines 228-229)
PreviousSubscriptions(c) == IF prepared[c] THEN subscriptions[c] ELSE {}

\* faulty variant: a topic that is allowed again is subscribed again
KeptSubscriptionsRestored(c, u) ==
    AllowedTopics(u) \cap (PreviousSubscriptions(c) \cup dropped[c])

\* faulty variant: the subscriptions are kept as they are
KeptSubscriptionsNotIntersected(c, u) == IF prepared[c] THEN subscriptions[c] ELSE {}

\* lines 228-231
KeptSubscriptions(c, u) ==
    AllowedTopics(u) \cap (IF prepared[c] THEN subscriptions[c] ELSE {})

\* faulty variant: request.methods is not emptied before it is filled
RebuildMethodsNotReset(c, u0, t) ==
    LET u == WithPermissions(u0)
    IN  /\ user' = [user EXCEPT ![c] = u]
        /\ methods' = [methods EXCEPT ![c] = AllowedMethods(u) @@ methods[c]]
        /\ topics' = [topics EXCEPT ![c] = AllowedTopics(u)]
        /\ subscriptions' = [subscriptions EXCEPT ![c] = KeptSubscriptions(c, u)]
        /\ prepared' = [prepared EXCEPT ![c] = TRUE]
        /\ writer' = [writer EXCEPT ![c] = t]
        /\ dropped' = [dropped EXCEPT
                       ![c] = @ \cup (PreviousSubscriptions(c) \ AllowedTopics(u))]

\* faulty variant: the tables are kept on the backend, shared by all connections
RebuildSharedTables(c, u0, t) ==
    LET u == WithPermissions(u0)
    IN  /\ user' = [d \in Conns |-> u]
        /\ methods' = [d \in Conns |-> AllowedMethods(u)]
        /\ topics' = [d \in Conns |-> AllowedTopics(u)]
        /\ subscriptions' = [subscriptions EXCEPT ![c] = KeptSubscriptions(c, u)]
        /\ prepared' = [prepared EXCEPT ![c] = TRUE]
        /\ writer' = [writer EXCEPT ![c] = t]
        /\ dropped' = [dropped EXCEPT
                       ![c] = @ \cup (PreviousSubscriptions(c) \ AllowedTopics(u))]

\* lines 199-231 for connection c with the user object u0; t is the ticket of
\* the call
Rebuild(c, u0, t) ==
    LET u == WithPermissions(u0)
    IN  /\ user' = [user EXCEPT ![c] = u]
        /\ methods' = [methods EXCEPT ![c] = AllowedMethods(u)]
        /\ topics' = [topics EXCEPT ![c] = AllowedTopics(u)]
        /\ subscriptions' = [subscriptions EXCEPT ![c] = KeptSubscriptions(c, u)]
        /\ prepared' = [prepared EXCEPT ![c] = TRUE]
        /\ writer' = [writer EXCEPT ![c] = t]
        /\ dropped' = [dropped EXCEPT
                       ![c] = @ \cup (PreviousSubscriptions(c) \ AllowedTopics(u))]

-----------------------------------------------------------------------------
(* prepare_request without a user: the lookup on the worker pool *)

\* a prepare_request call suspended at run_in_executor (lines 193-197)
Task(t, stage, result) == [ticket |-> t, stage |-> stage, result |-> result]

\* faulty variant: a rebuild starts while another is suspended
RebuildIdleNotAwaited(c) == TRUE

\* the caller (JsonRpc) starts a rebuild of a connection only when none is in
\* progress for it
RebuildIdle(c) == pending[c] = {}

RECURSIVE SumTickets(_)
SumTickets(S) ==
    IF S = {} THEN 0
    ELSE LET c == CHOOSE x \in S : TRUE IN tickets[c] + SumTickets(S \ {c})

\* rebuilds triggered so far, over all connections
RebuildsStarted == SumTickets(Conns)

\* faulty variant: get_user is called on the event loop, which runs nothing
\* else until the lookup has returned
DispatchBlocking(c) ==
    /\ \A d \in Conns : pending[d] = {}
    /\ RebuildsStarted < MaxRebuilds
    /\ tickets' = [tickets EXCEPT ![c] = tickets[c] + 1]
    /\ pending' = [pending EXCEPT
                     ![c] = pending[c] \cup
                            {Task(tickets[c] + 1, "queued", Return(AnonymousUser))}]

\* lines 192-197: get_user is handed to the executor and the call suspends
Dispatch(c) ==
    /\ RebuildsStarted < MaxRebuilds
    /\ tickets' = [tickets EXCEPT ![c] = tickets[c] + 1]
    /\ pending' = [pending EXCEPT
                     ![c] = pending[c] \cup
                            {Task(tickets[c] + 1, "queued", Return(AnonymousUser))}]

\* a client connects with the cookies ck; JsonRpc calls prepare_request(request)
Connect(c, ck) ==
    /\ tickets[c] = 0
    /\ cookies' = [cookies EXCEPT ![c] = ck]
    /\ Dispatch(c)
    /\ UNCHANGED <<cfgVars, dbVars, user, methods, topics, subscriptions, prepared,
                   writer, dropped, ws_cookies, reply, authVars, ormVars>>

\* prepare_request(request) is called again for an established connection
Reresolve(c) ==
    /\ prepared[c]
    /\ RebuildIdle(c)
    /\ Dispatch(c)
    /\ UNCHANGED <<cfgVars, dbVars, cookies, user, methods, topics, subscriptions,
                   prepared, writer, dropped, ws_cookies, reply, authVars, ormVars>>

\* a worker thread runs self.get_user(request)
RunGetUser(c, t) ==
    /\ \E task \in pending[c] :
          /\ task.ticket = t
          /\ task.stage = "queued"
          /\ pending' = [pending EXCEPT
                           ![c] = (pending[c] \ {task}) \cup
                                  {Task(t, "done", get_user(cookies[c]))}]
    /\ UNCHANGED <<cfgVars, dbVars, cookies, user, methods, topics, subscriptions,
                   prepared, tickets, writer, dropped, ws_cookies, reply, authVars,
                   ormVars>>

\* faulty variant: the await gives up on a lookup that has not returned and
\* the rebuild goes on with the anonymous user
ResumeUnfinished(c, t) ==
    /\ \E task \in pending[c] :
          /\ task.ticket = t
          /\ pending' = [pending EXCEPT ![c] = pending[c] \ {task}]
          /\ IF task.result.raised = "none"
             THEN Rebuild(c, task.result.value, t)
             ELSE UNCHANGED <<user, methods, topics, subscriptions, prepared, writer,
                              dropped>>
    /\ UNCHANGED <<cfgVars, dbVars, cookies, tickets, ws_cookies, reply, authVars,
                   ormVars>>

\* the await returns: lines 199-231 run with the user found; an exception of
\* get_user is raised at the await and leaves the request as it was
Resume(c, t) ==
    /\ \E task \in pending[c] :
          /\ task.ticket = t
          /\ task.stage = "done"
          /\ pending' = [pending EXCEPT ![c] = pending[c] \ {task}]
          /\ IF task.result.raised = "none"
             THEN Rebuild(c, task.result.value, t)
             ELSE UNCHANGED <<user, methods, topics, subscriptions, prepared, writer,
                              dropped>>
    /\ UNCHANGED <<cfgVars, dbVars, cookies, tickets, ws_cookies, reply, authVars,
                   ormVars>>

-----------------------------------------------------------------------------
(* login (lines 154-188) *)

Val(t, v) == [t |-> t, v |-> v]
Missing == Val("missing", "")

\* str(x): a string is itself, a number its decimal digits
Str(x) == Val("str", x.v)

\* request.params of a login call: a dict (a missing key is Missing), a list or None
Params(shape, username, password) ==
    [shape |-> shape, username |-> username, password |-> password]

LoginParams ==
    { Params("dict", Val("str", "alice"), Val("str", "secret")),
      Params("dict", Val("str", "alice"), Val("str", "wrong")),
      Params("dict", Val("str", "root"), Val("int", "1234")),
      Params("dict", Val("str", "carol"), Val("str", "pw")),
      Params("dict", Val("str", "alice"), Missing),
      Params("dict", Missing, Val("str", "secret")),
      Params("list", Missing, Missing),
      Params("none", Missing, Missing) }

\* lines 155-157: what the two subscriptions raise
ParamsError(p) ==
    IF p.shape # "dict" THEN "TypeError"
    ELSE IF p.username = Missing \/ p.password = Missing THEN "KeyError"
    ELSE "none"

\* faulty variant: only KeyError is caught
LoginCaughtKeyErrorOnly == {"KeyError"}

\* line 159
LoginCaught == {"KeyError", "TypeError", "ValueError"}

\* django.contrib.auth.authenticate (ModelBackend): the active user with this
\* name and password, or None (NoUid)
authenticate(username, password) ==
    LET found == {u \in DOMAIN users : /\ users[u].username = username.v
                                       /\ users[u].password = password.v
                                       /\ users[u].is_active}
    IN  IF found = {} THEN NoUid ELSE CHOOSE u \in found : TRUE

\* the response to a login call, and whether authenticate was called for it
Reply(result, auth_called) == [result |-> result, auth_called |-> auth_called]

NoReply == Reply("none", FALSE)

\* no cookie set on the websocket response yet
NoSetCookies == [n \in {} |-> [value |-> "", path |-> "/"]]

\* the dispatcher calls the JsonRpcMethod found under "login" in request.methods
LoginCallable(c) ==
    /\ prepared[c]
    /\ LoginName \in DOMAIN methods[c]
    /\ methods[c][LoginName] = BuiltinLogin

\* faulty variant: rejected credentials raise InvalidParams
LoginResultErrorOnReject(p) ==
    IF ParamsError(p) # "none" THEN "InvalidParams"
    ELSE IF authenticate(Str(p.username), Str(p.password)) = NoUid THEN "InvalidParams"
    ELSE "true"

\* what the call answers: lines 155-165 and 188. An exception line 159 does
\* not catch leaves login as it is
LoginResult(p) ==
    IF ParamsError(p) # "none"
    THEN IF ParamsError(p) \in LoginCaught THEN "InvalidParams" ELSE ParamsError(p)
    ELSE IF authenticate(Str(p.username), Str(p.password)) = NoUid THEN "false"
    ELSE "true"

\* faulty variant: the cookie is set without the session key
SetCookieNoValue(jar, name, value) ==
    [n \in DOMAIN jar \cup {name} |->
        IF n = name THEN [value |-> "", path |-> "/"] ELSE jar[n]]

\* lines 175-183: ws.set_cookie(name=..., value=..., path='/')
SetCookie(jar, name, value) ==
    [n \in DOMAIN jar \cup {name} |->
        IF n = name THEN [value |-> value, path |-> "/"] ELSE jar[n]]

\* lines 169-172: django_login on a new SessionStore, saved under a new key
SaveSession(key, uid) == sessions @@ (key :> SessionRow(uid, FALSE))

Login(c, p) ==
    /\ LoginCallable(c)
    /\ RebuildIdle(c)
    /\ RebuildsStarted < MaxRebuilds
    /\ IF LoginResult(p) = "true"
       THEN LET uid == authenticate(Str(p.username), Str(p.password))
            IN  \E key \in NewSessionKeys \ DOMAIN sessions :
                   /\ sessions' = SaveSession(key, uid)
                   /\ ws_cookies' =
                         [ws_cookies EXCEPT
                            ![c] = SetCookie(ws_cookies[c], SESSION_COOKIE_NAME, key)]
                   /\ tickets' = [tickets EXCEPT ![c] = tickets[c] + 1]
                   /\ Rebuild(c, UserObject(uid), tickets[c] + 1)
       ELSE UNCHANGED <<sessions, user, methods, topics, subscriptions, prepared,
                        tickets, writer, dropped, ws_cookies>>
    /\ reply' = [reply EXCEPT ![c] = Reply(LoginResult(p), ParamsError(p) = "none")]
    /\ UNCHANGED <<cfgVars, users, cookies, pending, authVars, ormVars>>

-----------------------------------------------------------------------------
(* The dispatcher's subscribe method and the world around the backend *)

\* JsonRpc.subscribe: a topic of request.topics is added to request.subscriptions
Subscribe(c, topic) ==
    /\ prepared[c]
    /\ topic \in topics[c]
    /\ topic \notin subscriptions[c]
    /\ subscriptions' = [subscriptions EXCEPT ![c] = subscriptions[c] \cup {topic}]
    /\ UNCHANGED <<cfgVars, dbVars, cookies, user, methods, topics, prepared, pending,
                   tickets, writer, dropped, ws_cookies, reply, authVars, ormVars>>

\* the session row is deleted (logout elsewhere, clearsessions)
DeleteSession(key) ==
    /\ key \in DOMAIN sessions
    /\ sessions' = [k \in DOMAIN sessions \ {key} |-> sessions[k]]
    /\ UNCHANGED <<cfgVars, users, connVars, authVars, ormVars>>

\* the session's expire_date passes; the row stays in the table
ExpireSession(key) ==
    /\ key \in DOMAIN sessions
    /\ ~sessions[key].expired
    /\ sessions' = [sessions EXCEPT ![key].expired = TRUE]
    /\ UNCHANGED <<cfgVars, users, connVars, authVars, ormVars>>

\* an administrator takes a permission from a user
RevokePermission(u, perm) ==
    /\ u \in DOMAIN users
    /\ perm \in users[u].user_permissions
    /\ users' = [users EXCEPT ![u].user_permissions = @ \ {perm}]
    /\ UNCHANGED <<cfgVars, sessions, connVars, authVars, ormVars>>

\* an administrator gives a permission to a user
GrantPermission(u, perm) ==
    /\ u \in DOMAIN users
    /\ perm \notin users[u].user_permissions
    /\ users' = [users EXCEPT ![u].user_permissions = @ \cup {perm}]
    /\ UNCHANGED <<cfgVars, sessions, connVars, authVars, ormVars>>

\* cookies a client can present: none, the cookie of alice's web session, or
\* any cookie a login has set on a websocket
ClientCookies ==
    {NoCookies, OneCookie("sessionid", "s0")}
    \cup UNION {{OneCookie(n, ws_cookies[c][n].value) : n \in DOMAIN ws_cookies[c]} :
                   c \in Conns}

-----------------------------------------------------------------------------
(* The generic ORM methods (lines 69-151): the models and their managers    *)

\* "<app_label>.<model_name>" of the installed models, the model name kept as
\* its segments between underscores: shop.item and shop.item_log
ModelItem == <<"shop", "item">>
ModelItemLog == <<"shop", "item", "log">>
InstalledModels == {ModelItem, ModelItemLog}

\* the fields of both models (tests/django_project: Item)
ItemFields == {"client_id", "number"}

Row(client_id, number) == [client_id |-> client_id, number |-> number]

NoRows == [pk \in {} |-> Row("", "")]

\* primary keys the database gives to new rows
ItemPool == <<"2", "3", "4", "5">>
NewItemKeys == {ItemPool[i] : i \in 1..MaxItems}

\* the strings an IntegerField takes
Ints == {"1", "7", "404"} \cup {ItemPool[i] : i \in 1..Len(ItemPool)}

\* request.msg.data['params']: None, a list, or a dict field -> value
NoFields == [k \in {} |-> ""]
OrmParamsOf(shape, fields) == [shape |-> shape, fields |-> fields]
Dict(fields) == OrmParamsOf("dict", fields)

OrmParams ==
    { OrmParamsOf("none", NoFields),
      OrmParamsOf("list", NoFields),
      OrmParamsOf("empty_list", NoFields),
      Dict(NoFields),
      Dict("number" :> "7"),
      Dict("colour" :> "7"),
      Dict("number" :> "x"),
      Dict(("client_id" :> "1") @@ ("number" :> "404")),
      Dict(("pk" :> "1") @@ ("number" :> "404")),
      Dict(("pk" :> "404") @@ ("number" :> "7")),
      Dict(("pk" :> "1") @@ ("number" :> "x")),
      Dict(("pk" :> "x") @@ ("number" :> "7")) }

\* what a call on the manager does: the exception it raises ("none" when it
\* returns), the pks of the rows it returns or writes, and the table afterwards
Done(pks, table) == [raised |-> "none", pks |-> pks, table |-> table]
Fails(exc, table) == [raised |-> exc, pks |-> {}, table |-> table]

Matches(row, pk, lookups) ==
    \A k \in DOMAIN lookups :
        IF k = "pk" THEN pk = lookups[k] ELSE row[k] = lookups[k]

\* model.objects.filter(**lookups), evaluated
Filter(table, lookups) ==
    IF \E k \in DOMAIN lookups : k \notin ItemFields \cup {"pk"}
    THEN Fails("FieldError", table)
    ELSE IF \E k \in DOMAIN lookups : lookups[k] \notin Ints
    THEN Fails("ValueError", table)
    ELSE Done({pk \in DOMAIN table : Matches(table[pk], pk, lookups)}, table)

\* model.objects.filter(**lookups).delete()
FilterDelete(table, lookups) ==
    LET found == Filter(table, lookups)
    IN  IF found.raised # "none" THEN found
        ELSE Done(found.pks, [pk \in DOMAIN table \ found.pks |-> table[pk]])

\* the pk of the next row
NewPk(table) ==
    ItemPool[CHOOSE i \in 1..Len(ItemPool) :
                /\ ItemPool[i] \notin DOMAIN table
                /\ \A j \in 1..(i - 1) : ItemPool[j] \in DOMAIN table]

\* model.objects.create(**values)
Create(table, values) ==
    IF \E k \in DOMAIN values : k \notin ItemFields \cup {"pk"}
    THEN Fails("TypeError", table)
    ELSE IF \E k \in DOMAIN values : values[k] \notin Ints
    THEN Fails("ValueError", table)
    ELSE IF ~(ItemFields \subseteq DOMAIN values) THEN Fails("IntegrityError", table)
    ELSE IF "pk" \in DOMAIN values /\ values["pk"] \in DOMAIN table
    THEN Fails("IntegrityError", table)
    ELSE LET pk == IF "pk" \in DOMAIN values THEN values["pk"] ELSE NewPk(table)
         IN  Done({pk}, table @@ (pk :> Row(values["client_id"], values["number"])))

\* model.objects.get(pk=pk)
Get(table, pk) ==
    IF pk \notin Ints THEN Fails("ValueError", table)
    ELSE IF pk \notin DOMAIN table THEN Fails("Model.DoesNotExist", table)
    ELSE Done({pk}, table)

\* setattr(model_object, field_name, value) for every item, then save(): an
\* attribute that is no field is not saved
SetattrAndSave(table, pk, values) ==
    LET fields == DOMAIN values \cap ItemFields
    IN  IF \E k \in fields : values[k] \notin Ints THEN Fails("ValueError", table)
        ELSE Done({pk}, [table EXCEPT
                           ![pk] = [k \in ItemFields |->
                                      IF k \in fields THEN values[k] ELSE table[pk][k]]])

-----------------------------------------------------------------------------
(* The generic ORM methods (lines 75-151) *)

\* what an ORM method does: the _model_* operation that ran ("none" when the
\* call did not get to one) and its model, what the caller receives ("ok" for
\* a result, else the exception), what the manager raised, the rows, the table
Outcome(op, model, result, raised, pks, table) ==
    [op |-> op, model |-> model, result |-> result, raised |-> raised,
     pks |-> pks, table |-> table]

\* try: ... except <caught> as e: raise RpcInvalidParamsError from e
Try(op, model, caught, r) ==
    Outcome(op, model,
            IF r.raised = "none" THEN "ok"
            ELSE IF caught = {"Exception"} \/ r.raised \in caught THEN "InvalidParams"
            ELSE r.raised,
            r.raised, r.pks, r.table)

\* request.msg.data['params'] or {}
OrEmptyDict(p) == IF p.shape \in {"none", "empty_list"} THEN Dict(NoFields) ELSE p

\* lines 75-87
model_view(model, p, table) ==
    LET lookups == OrEmptyDict(p)
    IN  IF lookups.shape # "dict"
        THEN Outcome("view", model, "InvalidParams", "none", {}, table)
        ELSE Try("view", model, {"Exception"}, Filter(table, lookups.fields))

\* lines 90-102
model_delete(model, p, table) ==
    LET lookups == OrEmptyDict(p)
    IN  IF lookups.shape # "dict"
        THEN Outcome("delete", model, "InvalidParams", "none", {}, table)
        ELSE Try("delete", model, {"Exception"}, FilterDelete(table, lookups.fields))

\* lines 104-116
model_add(model, p, table) ==
    LET values == OrEmptyDict(p)
    IN  IF values.shape # "dict" \/ values.fields = NoFields
        THEN Outcome("add", model, "InvalidParams", "none", {}, table)
        ELSE Try("add", model, {"Exception"}, Create(table, values.fields))

\* lines 118-133: params.pop('pk') raises AttributeError on None, TypeError on
\* a list and KeyError on a dict without 'pk'
model_change(model, p, table) ==
    IF p.shape = "none" THEN Outcome("change", model, "AttributeError", "none", {}, table)
    ELSE IF p.shape # "dict" THEN Outcome("change", model, "TypeError", "none", {}, table)
    ELSE IF "pk" \notin DOMAIN p.fields
    THEN Outcome("change", model, "InvalidParams", "none", {}, table)
    ELSE LET pk == p.fields["pk"]
             params == [k \in DOMAIN p.fields \ {"pk"} |-> p.fields[k]]
             found == Get(table, pk)
         IN  IF found.raised # "none" THEN Try("change", model, {"KeyError"}, found)
             ELSE Try("change", model, {"KeyError"}, SetattrAndSave(table, pk, params))

\* lines 135-151 for request.msg.data['method'] = n: the name after "db__", its
\* app label, and its codename split at the underscores; unpacking the split
\* into action and model_name raises ValueError unless there are two parts
handle_orm_call(n, p) ==
    LET app_label == n[2]
        parts == SubSeq(n, 3, Len(n))
    IN  IF Len(parts) # 2
        THEN Outcome("none", <<>>, "ValueError", "none", {}, NoRows)
        ELSE LET action == parts[1]
                 model == <<app_label, parts[2]>>
             IN  IF model \notin InstalledModels
                 THEN Outcome("none", model, "LookupError", "none", {}, NoRows)
                 ELSE CASE action = "view" -> model_view(model, p, objects[model])
                        [] action = "add" -> model_add(model, p, objects[model])
                        [] action = "change" -> model_change(model, p, objects[model])
                        [] action = "delete" -> model_delete(model, p, objects[model])
                        [] OTHER -> Outcome("none", model, "ok", "none", {},
                                            objects[model])

\* a db__ call of a connection and its outcome
OrmReply(c, n, p, o) ==
    [conn |-> c, method |-> n, params |-> p, op |-> o.op, model |-> o.model,
     result |-> o.result, raised |-> o.raised, pks |-> o.pks]

NoOrmReply ==
    OrmReply("", <<>>, OrmParamsOf("none", NoFields),
             Outcome("none", <<>>, "none", "none", {}, NoRows))

InitObjects ==
    /\ objects = [m \in InstalledModels |->
                    IF m = ModelItem THEN "1" :> Row("1", "7") ELSE NoRows]
    /\ orm_reply = NoOrmReply

\* the dispatcher calls the JsonRpcMethod found under the name in request.methods
OrmCallable(c, n) ==
    /\ prepared[c]
    /\ n \in DOMAIN methods[c]
    /\ methods[c][n] = OrmCall

\* connection c calls the db__ method n with the params p
OrmInvoke(c, n, p) ==
    /\ OrmCallable(c, n)
    /\ n[3] = "add" => NewItemKeys \ DOMAIN objects[ModelItem] # {}
    /\ LET o == handle_orm_call(n, p)
       IN  /\ objects' = IF o.model \in InstalledModels
                         THEN [objects EXCEPT ![o.model] = o.table] ELSE objects
           /\ orm_reply' = OrmReply(c, n, p, o)
    /\ UNCHANGED <<cfgVars, dbVars, connVars, authVars>>

-----------------------------------------------------------------------------
(* The authorization check on its own: _is_authorized for every user and    *)
(* every set of method attributes                                           *)

AuthUsers ==
    {AnonymousUser}
    \cup [kind : {"User"}, uid : {Alice}, is_active : BOOLEAN,
          is_superuser : BOOLEAN, perms : SUBSET {PermView, PermChange}]

RECURSIVE SeqsUpTo(_, _)
SeqsUpTo(S, n) ==
    IF n = 0 THEN {<<>>}
    ELSE SeqsUpTo(S, n - 1)
         \cup {Append(q, x) : q \in {r \in SeqsUpTo(S, n - 1) : Len(r) = n - 1}, x \in S}

AuthMetas ==
    [login_required : BOOLEAN,
     permissions_required : SUBSET {PermView, PermChange},
     tests : SeqsUpTo(TestIds, MaxTests)]

Decide ==
    /\ authResult = "none"
    /\ authResult' = IF IsAuthorized(authUser, authMeta) THEN "allow" ELSE "deny"
    /\ UNCHANGED <<cfgVars, dbVars, connVars, authUser, authMeta, ormVars>>

-----------------------------------------------------------------------------
(* Specifications *)

InitConns ==
    /\ cookies = [c \in Conns |-> NoCookies]
    /\ user = [c \in Conns |-> AnonymousUser]
    /\ methods = [c \in Conns |-> EmptyTable]
    /\ topics = [c \in Conns |-> {}]
    /\ subscriptions = [c \in Conns |-> {}]
    /\ prepared = [c \in Conns |-> FALSE]
    /\ pending = [c \in Conns |-> {}]
    /\ tickets = [c \in Conns |-> 0]
    /\ writer = [c \in Conns |-> 0]
    /\ dropped = [c \in Conns |-> {}]
    /\ ws_cookies = [c \in Conns |-> NoSetCookies]
    /\ reply = [c \in Conns |-> NoReply]

InitDb ==
    /\ users = InitUsers
    /\ sessions = InitSessions

Init ==
    /\ \E cfg \in Configurations :
          /\ rpc_methods = cfg.methods
          /\ generic_orm_methods = cfg.orm
          /\ SESSION_COOKIE_NAME = cfg.cookie
    /\ InitDb
    /\ InitConns
    /\ authUser = AnonymousUser
    /\ authMeta = Meta(FALSE, {}, <<>>)
    /\ authResult = "none"
    /\ InitObjects

Next ==
    \/ \E c \in Conns, ck \in ClientCookies : Connect(c, ck)
    \/ \E c \in Conns : Reresolve(c)
    \/ \E c \in Conns, t \in 1..MaxRebuilds : RunGetUser(c, t)
    \/ \E c \in Conns, t \in 1..MaxRebuilds : Resume(c, t)
    \/ \E c \in Conns, p \in LoginParams : Login(c, p)
    \/ \E c \in Conns, topic \in DOMAIN rpc_topics : Subscribe(c, topic)
    \/ \E key \in DOMAIN sessions : DeleteSession(key)
    \/ \E key \in DOMAIN sessions : ExpireSession(key)
    \/ RevokePermission(Alice, PermView)

Spec == Init /\ [][Next]_vars

InitAuth ==
    /\ rpc_methods = BaseMethods
    /\ generic_orm_methods = FALSE
    /\ SESSION_COOKIE_NAME = "sessionid"
    /\ InitDb
    /\ InitConns
    /\ authUser \in AuthUsers
    /\ authMeta \in AuthMetas
    /\ authResult = "none"
    /\ InitObjects

NextAuth == Decide

SpecAuth == InitAuth /\ [][NextAuth]_vars

-----------------------------------------------------------------------------
(* Identity resolution on its own: get_user for every cookie and every      *)
(* content of the Session and User tables                                   *)

Ghost == "9"

ResolveSessionRows ==
    ("s0" :> SessionRow(Alice, FALSE))
    @@ ("sx" :> SessionRow(Alice, TRUE))
    @@ ("sc" :> SessionRow(Carol, FALSE))
    @@ ("sa" :> SessionRow(NoUid, FALSE))
    @@ ("sg" :> SessionRow(Ghost, FALSE))

ResolveSessions ==
    {[k \in K |-> ResolveSessionRows[k]] : K \in SUBSET DOMAIN ResolveSessionRows}

ResolveUsers == {InitUsers, [u \in {Root, Carol} |-> InitUsers[u]]}

ResolveCookies ==
    {NoCookies}
    \cup {OneCookie(n, v) : n \in CookieNames,
                            v \in {"", "bogus"} \cup DOMAIN ResolveSessionRows}

\* connection "a" has just connected: its lookup is queued on the worker pool
InitResolve ==
    /\ rpc_methods = BaseMethods
    /\ generic_orm_methods = FALSE
    /\ SESSION_COOKIE_NAME = "sessionid"
    /\ users \in ResolveUsers
    /\ sessions \in ResolveSessions
    /\ cookies \in {[c \in Conns |-> IF c = "a" THEN ck ELSE NoCookies] :
                       ck \in ResolveCookies}
    /\ user = [c \in Conns |-> AnonymousUser]
    /\ methods = [c \in Conns |-> EmptyTable]
    /\ topics = [c \in Conns |-> {}]
    /\ subscriptions = [c \in Conns |-> {}]
    /\ prepared = [c \in Conns |-> FALSE]
    /\ pending = [c \in Conns |->
                    IF c = "a" THEN {Task(1, "queued", Return(AnonymousUser))} ELSE {}]
    /\ tickets = [c \in Conns |-> IF c = "a" THEN 1 ELSE 0]
    /\ writer = [c \in Conns |-> 0]
    /\ dropped = [c \in Conns |-> {}]
    /\ ws_cookies = [c \in Conns |-> NoSetCookies]
    /\ reply = [c \in Conns |-> NoReply]
    /\ authUser = AnonymousUser
    /\ authMeta = Meta(FALSE, {}, <<>>)
    /\ authResult = "none"
    /\ InitObjects

NextResolve ==
    \/ \E c \in Conns, t \in 1..MaxRebuilds : RunGetUser(c, t)
    \/ \E c \in Conns, t \in 1..MaxRebuilds : Resume(c, t)

SpecResolve == InitResolve /\ [][NextResolve]_vars

-----------------------------------------------------------------------------
(* Subscriptions while an administrator changes a user's permissions: the   *)
(* connections resolve their session cookie again and again                 *)

InitSubs ==
    /\ rpc_methods = BaseMethods
    /\ generic_orm_methods = FALSE
    /\ SESSION_COOKIE_NAME = "sessionid"
    /\ InitDb
    /\ InitConns
    /\ authUser = AnonymousUser
    /\ authMeta = Meta(FALSE, {}, <<>>)
    /\ authResult = "none"
    /\ InitObjects

NextSubs ==
    \/ \E c \in Conns, ck \in ClientCookies : Connect(c, ck)
    \/ \E c \in Conns : Reresolve(c)
    \/ \E c \in Conns, t \in 1..MaxRebuilds : RunGetUser(c, t)
    \/ \E c \in Conns, t \in 1..MaxRebuilds : Resume(c, t)
    \/ \E c \in Conns, topic \in DOMAIN rpc_topics : Subscribe(c, topic)
    \/ RevokePermission(Alice, PermView)
    \/ GrantPermission(Alice, PermView)

SpecSubs == InitSubs /\ [][NextSubs]_vars

-----------------------------------------------------------------------------
(* The generic ORM methods in use: a connection of alice or of the          *)
(* superuser root calls the db__ methods of its table                       *)

DbMethodNames == {DbMethodName(perm) : perm \in AllPermissions}

InitOrm ==
    /\ rpc_methods = BaseMethods
    /\ generic_orm_methods \in BOOLEAN
    /\ SESSION_COOKIE_NAME = "sessionid"
    /\ users = InitUsers
    /\ sessions \in {"s0" :> SessionRow(uid, FALSE) : uid \in {Alice, Root}}
    /\ InitConns
    /\ authUser = AnonymousUser
    /\ authMeta = Meta(FALSE, {}, <<>>)
    /\ authResult = "none"
    /\ InitObjects

NextOrm ==
    \/ \E c \in Conns, ck \in ClientCookies : Connect(c, ck)
    \/ \E c \in Conns, t \in 1..MaxRebuilds : RunGetUser(c, t)
    \/ \E c \in Conns, t \in 1..MaxRebuilds : Resume(c, t)
    \/ \E c \in Conns, n \in DbMethodNames, p \in OrmParams : OrmInvoke(c, n, p)

SpecOrm == InitOrm /\ [][NextOrm]_vars

-----------------------------------------------------------------------------
(* Properties *)

\* request.methods maps "login" to the backend's own login method
HasBuiltinLogin(c) ==
    LoginName \in DOMAIN methods[c] /\ methods[c][LoginName] = BuiltinLogin

\* C1: in every state, also while a rebuild of the connection is suspended
\* at its lookup, the subscriptions of a connection are among its allowed
\* topics, and a connection that was never rebuilt has none.
C1_SubscriptionsWithinTopics ==
    \A c \in Conns :
        /\ subscriptions[c] \subseteq topics[c]
        /\ ~prepared[c] => subscriptions[c] = {}

\* a connection that subscribed to "orders" as alice was rebuilt as anonymous
\* and keeps only the subscription it is still allowed
C1_Witness ==
    \E c \in Conns :
        /\ writer[c] >= 2
        /\ user[c].kind = "AnonymousUser"
        /\ subscriptions[c] = {"news"}
        /\ topics[c] = {"news"}

\* the decision as the specification words it
ReferenceDecision(u, m) ==
    IF m.login_required /\ (u.kind = "AnonymousUser" \/ ~u.is_active) THEN FALSE
    ELSE IF /\ m.permissions_required # {}
            /\ ~u.is_superuser
            /\ \E p \in m.permissions_required : p \notin u.perms THEN FALSE
    ELSE IF ~u.is_superuser /\ \E i \in 1..Len(m.tests) : ~RunTest(m.tests[i], u)
    THEN FALSE
    ELSE TRUE

\* C2: for every user and every set of method attributes, _is_authorized
\* answers as the reference decision does: login_required first, then the
\* permissions and the tests, which a superuser skips.
C2_IsAuthorizedMatchesReference ==
    authResult # "none" =>
        authResult = IF ReferenceDecision(authUser, authMeta) THEN "allow" ELSE "deny"

\* a superuser without the required permission and failing a test is allowed
C2_Witness ==
    /\ authResult = "allow"
    /\ authUser.is_superuser
    /\ ~authUser.is_active
    /\ authMeta.permissions_required = {PermChange}
    /\ PermChange \notin authUser.perms
    /\ authMeta.tests = <<"t_anonymous">>

\* C3: after a rebuild, a registered name maps to its registered method in
\* request.methods exactly when the method is authorized for request.user.
C3_RegisteredIffAuthorized ==
    \A c \in Conns :
        prepared[c] =>
            \A n \in DOMAIN rpc_methods :
                (n \in DOMAIN methods[c] /\ methods[c][n] = Registered(n))
                    <=> ReferenceDecision(user[c], rpc_methods[n])

\* a connection that had logged in was rebuilt as anonymous and lost "whoami"
C3_Witness ==
    \E c \in Conns :
        /\ writer[c] >= 3
        /\ reply[c].result = "true"
        /\ user[c].kind = "AnonymousUser"
        /\ <<"whoami">> \notin DOMAIN methods[c]
        /\ <<"ping">> \in DOMAIN methods[c]

\* C4 as claimed: after a rebuild, the built-in "login" entry is in
\* request.methods exactly when request.user is anonymous, and a logged-in
\* connection has no "login" method at all.
C4_LoginIffAnonymous ==
    \A c \in Conns :
        prepared[c] =>
            /\ HasBuiltinLogin(c) <=> user[c].kind = "AnonymousUser"
            /\ user[c].kind = "User" => LoginName \notin DOMAIN methods[c]

\* C4 as amended: after a rebuild, the built-in "login" entry is in
\* request.methods exactly when request.user is anonymous and no registered
\* method named "login" is authorized for it; a logged-in connection never has
\* the built-in entry, and has a "login" method only as an authorized
\* registered method of that name.
C4_BuiltinLoginUnlessRegistered ==
    \A c \in Conns :
        prepared[c] =>
            /\ HasBuiltinLogin(c) <=>
                  /\ user[c].kind = "AnonymousUser"
                  /\ ~(/\ LoginName \in DOMAIN rpc_methods
                       /\ ReferenceDecision(user[c], rpc_methods[LoginName]))
            /\ user[c].kind = "User" =>
                  /\ ~HasBuiltinLogin(c)
                  /\ LoginName \in DOMAIN methods[c] =>
                        /\ LoginName \in DOMAIN rpc_methods
                        /\ methods[c][LoginName] = Registered(LoginName)

\* an anonymous connection whose "login" entry is the registered method
C4_Witness ==
    \E c \in Conns :
        /\ prepared[c]
        /\ user[c].kind = "AnonymousUser"
        /\ LoginName \in DOMAIN methods[c]
        /\ methods[c][LoginName] = Registered(LoginName)

\* the credentials are a dict with both fields
WellFormed(p) == p.shape = "dict" /\ p.username # Missing /\ p.password # Missing

\* the active users whose name and password are the strings the call gives
MatchingUsers(p) ==
    {u \in DOMAIN users : /\ users[u].is_active
                          /\ users[u].username = p.username.v
                          /\ users[u].password = p.password.v}

\* the registered methods in the table of c are those the reference decision
\* allows for its user, and so are its topics
TablesMatchUser(c) ==
    /\ \A n \in DOMAIN rpc_methods :
          (n \in DOMAIN methods[c] /\ methods[c][n] = Registered(n))
              <=> ReferenceDecision(user[c], rpc_methods[n])
    /\ \A t \in DOMAIN rpc_topics :
          t \in topics[c] <=> ReferenceDecision(user[c], rpc_topics[t])

\* everything a login call may change besides its reply
LoginFrame ==
    <<cfgVars, dbVars, cookies, user, methods, topics, subscriptions, prepared,
      pending, tickets, writer, dropped, ws_cookies, authVars, ormVars>>

\* a step that can be a login call of c: login is callable and no lookup is
\* dispatched or completed in the step (every Login(c, p) step is one)
LoginStepOf(c) == LoginCallable(c) /\ pending' = pending

C6_LoginRejected ==
    [][\A c \in Conns :
        LoginStepOf(c) =>
        \A p \in LoginParams :
          (WellFormed(p) /\ MatchingUsers(p) = {} /\ Login(c, p)) =>
              /\ reply'[c] = Reply("false", TRUE)
              /\ \A d \in Conns \ {c} : reply'[d] = reply[d]
              /\ UNCHANGED LoginFrame]_vars

\* a connection whose login was rejected: still anonymous, no cookie set
C6_Witness ==
    \E c \in Conns :
        /\ reply[c] = Reply("false", TRUE)
        /\ user[c].kind = "AnonymousUser"
        /\ ws_cookies[c] = NoSetCookies
        /\ HasBuiltinLogin(c)

\* C7: a login call whose params lack username or password, or are no dict,
\* fails with InvalidParams before authenticate is called and changes nothing
\* else.
C7_LoginInvalidParams ==
    [][\A c \in Conns :
        LoginStepOf(c) =>
        \A p \in LoginParams :
          (~WellFormed(p) /\ Login(c, p)) =>
              /\ reply'[c] = Reply("InvalidParams", FALSE)
              /\ \A d \in Conns \ {c} : reply'[d] = reply[d]
              /\ UNCHANGED LoginFrame]_vars

\* a connection whose login call failed with InvalidParams
C7_Witness ==
    \E c \in Conns :
        /\ reply[c] = Reply("InvalidParams", FALSE)
        /\ user[c].kind = "AnonymousUser"
        /\ ws_cookies[c] = NoSetCookies

\* the session cookie names a session row whose user id names a user
SessionBound(ck) ==
    /\ CookieGet(ck, "sessionid", "") \in DOMAIN sessions
    /\ sessions[CookieGet(ck, "sessionid", "")].uid \in DOMAIN users

\* C8: get_user never raises; it returns AnonymousUser when the cookie is
\* absent, empty, names no session, or names a session without a user id or
\* with the id of no user, and otherwise the user the session is bound to.
C8_GetUserNeverRaises ==
    \A c \in Conns :
        \A task \in pending[c] :
            task.stage = "done" =>
                /\ task.result.raised = "none"
                /\ ~SessionBound(cookies[c]) => task.result.value = AnonymousUser
                /\ SessionBound(cookies[c]) =>
                      /\ task.result.value.kind = "User"
                      /\ task.result.value.uid =
                            sessions[CookieGet(cookies[c], "sessionid", "")].uid

\* the lookup for a session whose user id names no user returned AnonymousUser
C8_Witness ==
    \E c \in Conns :
        \E task \in pending[c] :
            /\ task.stage = "done"
            /\ CookieGet(cookies[c], "sessionid", "") = "sg"
            /\ "sg" \in DOMAIN sessions
            /\ task.result = Return(AnonymousUser)

\* the session by which the connection's user was authenticated: the one its
\* login created, else the one its handshake cookie names
SessionBehind(c) ==
    IF reply[c].result = "true"
    THEN ws_cookies[c][SESSION_COOKIE_NAME].value
    ELSE CookieGet(cookies[c], "sessionid", "")

\* the session row exists and its expire_date has not passed
SessionValid(key) == key \in DOMAIN sessions /\ ~sessions[key].expired

\* C9: when the session behind an authenticated connection is gone or
\* invalid, the next lookup for the connection returns AnonymousUser.
C9_InvalidSessionDegrades ==
    [][\A c \in Conns, t \in 1..MaxRebuilds :
          (/\ RunGetUser(c, t)
           /\ prepared[c]
           /\ user[c].kind = "User"
           /\ ~SessionValid(SessionBehind(c))) =>
              \A task \in pending'[c] :
                  task.ticket = t => task.result = Return(AnonymousUser)]_vars

ConnState(c) == <<user[c], methods[c], topics[c], subscriptions[c]>>

\* the step dispatches, completes or answers a rebuild or a login of c
StepOf(c) ==
    \/ tickets'[c] # tickets[c]
    \/ pending'[c] # pending[c]
    \/ writer'[c] # writer[c]
    \/ reply'[c] # reply[c]

\* C11: a step of a rebuild or a login of one connection leaves the user,
\* methods, topics and subscriptions of every other connection and the
\* registries unchanged, and the state a rebuild writes is the one computed
\* from the connection's own user and previous subscriptions alone.
C11_ConnectionsIndependent ==
    [][\A c \in Conns :
          StepOf(c) =>
              /\ \A d \in Conns \ {c} : ConnState(d)' = ConnState(d)
              /\ UNCHANGED cfgVars
              /\ writer'[c] # writer[c] =>
                    /\ methods'[c] = AllowedMethods(user'[c])
                    /\ topics'[c] = AllowedTopics(user'[c])
                    /\ subscriptions'[c] =
                          topics'[c] \cap PreviousSubscriptions(c)]_vars

\* both connections were rebuilt, one by a login as root and one as anonymous,
\* and each holds the tables of its own user
C11_Witness ==
    /\ writer["a"] >= 2
    /\ user["a"].kind = "User"
    /\ user["a"].uid = Root
    /\ writer["b"] >= 1
    /\ user["b"].kind = "AnonymousUser"
    /\ <<"edit">> \in DOMAIN methods["a"]
    /\ <<"edit">> \notin DOMAIN methods["b"]

\* C12: a rebuild of a connection with the user it already has changes
\* nothing of its user, methods, topics and subscriptions, and a rebuild that
\* yields the user another rebuilt connection has yields that connection's
\* methods and topics, and its subscriptions when it started from them.
C12_RebuildIdempotent ==
    [][\A c \in Conns :
          writer'[c] # writer[c] =>
              /\ (prepared[c] /\ user'[c] = user[c]) => ConnState(c)' = ConnState(c)
              /\ \A d \in Conns \ {c} :
                    (prepared[d] /\ user'[c] = user[d]) =>
                        /\ methods'[c] = methods[d]
                        /\ topics'[c] = topics[d]
                        /\ PreviousSubscriptions(c) = subscriptions[d] =>
                              subscriptions'[c] = subscriptions[d]]_vars

\* alice's connection was rebuilt twice and holds her subscription to
\* "orders"; the other connection was rebuilt once for the same user
C12_Witness ==
    /\ writer["a"] = 2
    /\ reply["a"] = NoReply
    /\ writer["b"] = 1
    /\ user["a"].kind = "User"
    /\ user["a"] = user["b"]
    /\ methods["a"] = methods["b"]
    /\ "orders" \in subscriptions["a"]

\* the decision was taken for a user who is no superuser and a method that
\* requires permissions
PermissionCase ==
    /\ authResult # "none"
    /\ authMeta.permissions_required # {}
    /\ ~authUser.is_superuser

Unrestricted(m) ==
    ~m.login_required /\ m.permissions_required = {} /\ m.tests = <<>>

\* C14 as claimed: after a rebuild for the anonymous user, the names in
\* request.methods are exactly "login" and the registered methods without a
\* login, permission or test requirement.
C14_AnonymousMethods ==
    \A c \in Conns :
        (prepared[c] /\ user[c].kind = "AnonymousUser") =>
            DOMAIN methods[c] =
                {LoginName} \cup {n \in DOMAIN rpc_methods : Unrestricted(rpc_methods[n])}

\* C14 as amended: after a rebuild for the anonymous user, the names in
\* request.methods are exactly "login" and the registered methods that are
\* not login_required, require no permission and whose tests, if any, all
\* pass for the anonymous user.
C14_AnonymousMethodsPassingTests ==
    \A c \in Conns :
        (prepared[c] /\ user[c].kind = "AnonymousUser") =>
            DOMAIN methods[c] =
                {LoginName}
                \cup {n \in DOMAIN rpc_methods :
                         /\ ~rpc_methods[n].login_required
                         /\ rpc_methods[n].permissions_required = {}
                         /\ \A i \in 1..Len(rpc_methods[n].tests) :
                               RunTest(rpc_methods[n].tests[i], AnonymousUser)}

\* an anonymous connection has "guest", whose test it passes, next to "login"
\* and "ping", and not "list"
C14_Witness ==
    \E c \in Conns :
        /\ prepared[c]
        /\ user[c].kind = "AnonymousUser"
        /\ HasBuiltinLogin(c)
        /\ <<"guest">> \in DOMAIN methods[c]
        /\ <<"ping">> \in DOMAIN methods[c]
        /\ <<"list">> \notin DOMAIN methods[c]

\* the user is no superuser and lacks a permission the topic requires
LacksTopicPermission(u, topic) ==
    /\ ~u.is_superuser
    /\ ~(rpc_topics[topic].permissions_required \subseteq u.perms)

\* C15: when a rebuild finds the connection subscribed to a topic whose
\* required permission its user now lacks, the rebuild completes without an
\* error and the topic is afterwards neither in request.topics nor in
\* request.subscriptions; and no rebuild adds a topic to the subscriptions,
\* so a dropped subscription does not come back when the topic is allowed again.
C15_LostTopicDropped ==
    [][\A c \in Conns :
          writer'[c] # writer[c] =>
              \A topic \in DOMAIN rpc_topics :
                  /\ (/\ topic \in PreviousSubscriptions(c)
                      /\ LacksTopicPermission(user'[c], topic)) =>
                          /\ topic \notin topics'[c]
                          /\ topic \notin subscriptions'[c]
                          /\ topic \in dropped'[c]
                          /\ prepared'[c]
                          /\ writer'[c] = tickets'[c]
                          /\ reply'[c].result \in {reply[c].result, "true"}
                  /\ topic \notin PreviousSubscriptions(c) =>
                          topic \notin subscriptions'[c]]_vars

\* alice's connection lost its subscription to "orders" with her permission;
\* the permission is back and a rebuild allows the topic again, unsubscribed
C15_Witness ==
    \E c \in Conns :
        /\ "orders" \in dropped[c]
        /\ user[c].uid = Alice
        /\ PermView \in user[c].perms
        /\ "orders" \in topics[c]
        /\ "orders" \notin subscriptions[c]
        /\ writer[c] = 3

\* the names in the table of c that begin with "db__"
DbMethodsOf(c) == {n \in DOMAIN methods[c] : n[1] = "db"}

\* the permissions of u whose action segment is view, add, change or delete
OrmPermissions(u) == {perm \in u.perms : perm[2] \in {"view", "add", "change", "delete"}}

\* the model a db__ name speaks of: its app label and all of its resource segment
ResourceOf(n) == <<n[2]>> \o SubSeq(n, 4, Len(n))

\* C16: after a rebuild the db__ names in request.methods are, with
\* generic_orm_methods, exactly the "db__<permission>" of the user's
\* permissions whose action is view, add, change or delete, and none
\* without it; and a call of "db__<app>.<action>_<resource>" runs the
\* operation of that action on the model of that resource.
C16_DbMethodsDispatch ==
    /\ \A c \in Conns :
          prepared[c] =>
              DbMethodsOf(c) =
                  IF generic_orm_methods
                  THEN {<<"db">> \o perm : perm \in OrmPermissions(user[c])}
                  ELSE {}
    /\ orm_reply # NoOrmReply =>
          /\ orm_reply.op = orm_reply.method[3]
          /\ orm_reply.model = ResourceOf(orm_reply.method)

\* C17: whenever the manager raises in a generic ORM operation, whichever
\* of the four it is, the caller receives InvalidParams.
C17_StoreFailureIsInvalidParams ==
    (orm_reply # NoOrmReply /\ orm_reply.raised # "none") =>
        orm_reply.result = "InvalidParams"

\* a lookup of the connection is on the worker pool and has not returned
LookupPending(c) == \E task \in pending[c] : task.stage = "queued"

\* a login call of c with the params p can be served: login is callable, no
\* rebuild of c is suspended, and the model's budgets allow one more
LoginServable(c, p) ==
    /\ LoginCallable(c)
    /\ RebuildIdle(c)
    /\ RebuildsStarted < MaxRebuilds
    /\ LoginResult(p) = "true" => NewSessionKeys \ DOMAIN sessions # {}

\* login calls of the other connection: one that is accepted, one that is
\* rejected and one without a password
PendingLogins ==
    { Params("dict", Val("str", "alice"), Val("str", "secret")),
      Params("dict", Val("str", "alice"), Val("str", "wrong")),
      Params("dict", Val("str", "alice"), Missing) }

\* C18: a rebuild whose lookup has not come back has not written the
\* connection's state, and while the lookup of one connection is pending
\* every other connection can take its next step: connect, have its own
\* lookup run, resume its rebuild, or be served a login call.
C18_LookupDoesNotBlock ==
    \A c \in Conns :
        /\ \A task \in pending[c] : writer[c] < task.ticket
        /\ (tickets[c] = 1 /\ pending[c] # {}) => ~prepared[c]
        /\ LookupPending(c) =>
              \A d \in Conns \ {c} :
                  /\ (tickets[d] = 0 /\ RebuildsStarted < MaxRebuilds) =>
                        ENABLED Connect(d, NoCookies)
                  /\ \A task \in pending[d] :
                        IF task.stage = "queued"
                        THEN ENABLED RunGetUser(d, task.ticket)
                        ELSE ENABLED Resume(d, task.ticket)
                  /\ \A p \in PendingLogins :
                        LoginServable(d, p) => ENABLED Login(d, p)

\* the lookup of connection "a" is still on the worker pool, its state is
\* not written, and connection "b" has connected and logged in
C18_Witness ==
    /\ tickets["a"] = 1
    /\ LookupPending("a")
    /\ ~prepared["a"]
    /\ writer["a"] = 0
    /\ writer["b"] = 2
    /\ reply["b"].result = "true"
    /\ user["b"].kind = "User"

\* the lookup of the rebuild with ticket t of c has returned in the next state
Returned(c, t) ==
    \E task \in pending'[c] : task.ticket = t /\ task.stage = "done"

\* C19: as long as the lookup of a rebuild has not returned, the rebuild
\* stays suspended: no step writes the connection's user, methods or topics,
\* none reports an error to it, and a connection whose first lookup is
\* outstanding has the anonymous user, no methods and no topics.
C19_PendingRebuildWritesNothing ==
    [][\A c \in Conns :
          \A task \in pending[c] :
              (task.stage = "queued" /\ ~Returned(c, task.ticket)) =>
                  /\ task \in pending'[c]
                  /\ user'[c] = user[c]
                  /\ methods'[c] = methods[c]
                  /\ topics'[c] = topics[c]
                  /\ prepared'[c] = prepared[c]
                  /\ writer'[c] = writer[c]
                  /\ reply'[c] = reply[c]
                  /\ tickets[c] = 1 =>
                        /\ ~prepared[c]
                        /\ user[c] = AnonymousUser
                        /\ methods[c] = EmptyTable
                        /\ topics[c] = {}
                        /\ reply[c] = NoReply]_vars

\* alice's session is gone and the lookup of her connection's second rebuild
\* has not returned: the connection still has what its first rebuild wrote
C19_Witness ==
    \E c \in Conns :
        /\ tickets[c] = 2
        /\ writer[c] = 1
        /\ pending[c] = {Task(2, "queued", Return(AnonymousUser))}
        /\ "s0" \notin DOMAIN sessions
        /\ user[c].kind = "User"
        /\ <<"whoami">> \in DOMAIN methods[c]

\* the cookies of c are the session cookie a login has set on a websocket,
\* under the name and with the value login gave it
PresentsLoginCookie(c) ==
    \E d \in Conns :
        /\ SESSION_COOKIE_NAME \in DOMAIN ws_cookies[d]
        /\ cookies[c] =
              OneCookie(SESSION_COOKIE_NAME, ws_cookies[d][SESSION_COOKIE_NAME].value)

\* C20: whatever settings.SESSION_COOKIE_NAME is, when a connection
\* presents the cookie a login has set and the session of that login is still
\* valid, the lookup for the connection returns the user who logged in.
C20_LoginCookieResolves ==
    [][\A c \in Conns, t \in 1..MaxRebuilds :
          (/\ PresentsLoginCookie(c)
           /\ SessionValid(cookies[c][SESSION_COOKIE_NAME])
           /\ RunGetUser(c, t)) =>
              \A task \in pending'[c] :
                  task.ticket = t =>
                      /\ task.result.raised = "none"
                      /\ task.result.value.kind = "User"
                      /\ task.result.value.uid =
                            sessions[cookies[c][SESSION_COOKIE_NAME]].uid]_vars

====
